---------------------------- MODULE Spec2Model ----------------------------
(***************************************************************************)
(* Brewst: the interactive session controller (DashboardView), its         *)
(* confirmation dialog, the application shell (app.Model) that routes      *)
(* events to the current view, and the shared state store.                 *)
(*                                                                         *)
(* Bubble Tea runs every tea.Cmd in its own goroutine and feeds the        *)
(* message it returns back into the single event loop.  `inflight` is the  *)
(* bag of commands that have been returned by an Update and have not yet   *)
(* delivered their message; they are delivered in any order, interleaved   *)
(* with operator keystrokes.                                               *)
(***************************************************************************)
EXTENDS Integers, Sequences, FiniteSets, Bags, TLC

(***************************************************************************)
(* Bounds of the model                                                     *)
(***************************************************************************)
\* keystrokes of one session that change the program or start a command
MaxKeys == 4
\* log lines appended in a run that only appends to the log
MaxAppends == 1003

(***************************************************************************)
(* Program constants                                                       *)
(***************************************************************************)
\* addLog keeps the last 1000 lines
LogCap == 1000
\* getInstalledVisibleLines: installedHeight - 5 with installedHeight = height - 1
InstalledChrome == 5
\* getSearchVisibleLines: searchHeight - 7, at least 2
SearchChrome == 7
SearchMinLines == 2
\* getDependenciesVisibleLines: depTreeHeight - 6, at least 1
DepChrome == 6
DepMinLines == 1
\* searchInput.CharLimit
CharLimit == 100

(***************************************************************************)
(* Values                                                                  *)
(***************************************************************************)
\* brew.Package; a nil *brew.Package is nilPkg (parsers never yield an empty name)
Pkg(name, inst) == [Name |-> name, Installed |-> inst, Outdated |-> FALSE]
nilPkg == [Name |-> "", Installed |-> FALSE, Outdated |-> FALSE]

\* brew.PackageInfo: the name and the number of dependencies; nil is nilInfo
Info(name, deps) == [Name |-> name, Dependencies |-> deps]
nilInfo == [Name |-> "", Dependencies |-> 0]

\* results the external package manager can produce
InstalledLists == { <<Pkg("a", TRUE), Pkg("b", TRUE)>> }
\* ... and what it reports in a session in which package b got uninstalled
ListsAfterUninstall == { <<Pkg("a", TRUE)>> }
SearchLists == { <<Pkg("c", FALSE), Pkg("d", FALSE)>> }
OutdatedLists == { <<>>, <<"a">> }
DepCounts == {2}
\* what `brew doctor` prints: words and line ends, here two lines with an empty
\* line between them and a final line end
DoctorOutputs == { <<"warn", "\n", "\n", "hint", "\n">> }
\* strings.TrimSpace: the white space at both ends goes
RECURSIVE TrimLeft(_)
TrimLeft(o) == IF o # <<>> /\ Head(o) = "\n" THEN TrimLeft(Tail(o)) ELSE o
RECURSIVE TrimRight(_)
TrimRight(o) ==
    IF o # <<>> /\ o[Len(o)] = "\n" THEN TrimRight(SubSeq(o, 1, Len(o) - 1)) ELSE o
TrimSpace(o) == TrimRight(TrimLeft(o))
\* strings.Split(output, "\n"): the text between the line ends, one string per
\* line and "" for an empty one (a line is one word here)
RECURSIVE Split(_)
Split(o) ==
    IF o = <<>> THEN <<"">>
    ELSE IF Head(o) = "\n" THEN <<"">> \o Split(Tail(o))
    ELSE <<Head(o)>> \o Tail(Split(Tail(o)))
\* runDoctor, lines 1101-1102: the lines of a report
DoctorReports == { Split(TrimSpace(o)) : o \in DoctorOutputs }
\* terminal heights reported by tea.WindowSizeMsg
Heights == {7}

\* keys the operator can press
Keys == {"up", "down", "left", "right", "tab", "enter", "esc", "u", "x", "U", "r", "d",
         "c", "a", "g", "q", "?", "1", "2", "4", "6"}
\* what the operator does in one session: the keys of one activity
Session(keys, fresh, installed) == [keys |-> keys, fresh |-> fresh, installed |-> installed]
Sessions ==
    { Session({"d", "c", "enter", "esc", "tab", "q"}, FALSE, InstalledLists),
      Session({"up", "down", "x", "d", "enter"}, FALSE, ListsAfterUninstall),
      Session({"tab", "g", "enter", "esc", "down"}, FALSE, InstalledLists),
      Session({"4", "U", "u", "esc"}, FALSE, InstalledLists),
      Session({"6", "d", "enter", "esc"}, FALSE, InstalledLists),
      Session({"1", "d", "enter"}, FALSE, InstalledLists),
      Session({"a", "U", "u", "?", "enter", "esc"}, FALSE, InstalledLists),
      Session({"2", "u", "esc"}, FALSE, InstalledLists),
      Session({"d", "enter"}, TRUE, InstalledLists),
      Session({"down", "up", "1"}, FALSE, InstalledLists),
      Session({"d", "left", "right", "enter"}, FALSE, InstalledLists) }
\* keys that are a single printable rune (typed into a focused text input)
RuneKeys == {"u", "x", "U", "r", "d", "c", "a", "g"}

ViewHome == "ViewHome"
ViewInstalled == "ViewInstalled"
ViewOutdated == "ViewOutdated"
ViewDiagnostics == "ViewDiagnostics"

PanelInstalled == "PanelInstalled"
PanelSearch == "PanelSearch"
PanelDependencies == "PanelDependencies"

(***************************************************************************)
(* Messages (tea.Msg) and commands (tea.Cmd)                               *)
(***************************************************************************)
\* the text of a confirmation prompt: which question, about which package, and
\* the number formatted into it ("Upgrade all %d outdated packages?")
Prompt(question, name, n) == [question |-> question, name |-> name, n |-> n]
noPrompt == Prompt("", "", 0)

\* all messages share one record shape; unused fields keep these defaults.
\* prompt is not a field of the code's DialogMsg: it records which prompt the
\* dialog showed when it resolved, and no handler reads it.
Msg(type) == [type |-> type, key |-> "", ok |-> FALSE, id |-> 0, pkg |-> nilPkg,
              info |-> nilInfo, pkgs |-> <<>>, names |-> <<>>, text |-> <<>>,
              view |-> "", prompt |-> noPrompt]

KeyMsg(k) == [Msg("KeyMsg") EXCEPT !.key = k]
WindowSizeMsg(h) == [Msg("WindowSizeMsg") EXCEPT !.id = h]
DialogMsg(confirmed, prompt) == [Msg("DialogMsg") EXCEPT !.ok = confirmed, !.prompt = prompt]
DebouncedLoadMsg(pkg, id) == [Msg("DebouncedLoadMsg") EXCEPT !.pkg = pkg, !.id = id]
PackageInfoLoadedMsg(info) == [Msg("PackageInfoLoadedMsg") EXCEPT !.info = info]
SearchResultsMsg(results) == [Msg("SearchResultsMsg") EXCEPT !.pkgs = results]
SuccessMsgView(text) == [Msg("SuccessMsgView") EXCEPT !.text = text]
ErrorMsgView(err) == [Msg("ErrorMsgView") EXCEPT !.text = err]
DoctorOutputMsg(lines) == [Msg("DoctorOutputMsg") EXCEPT !.text = lines]
DiagnosticsLoadedMsg(output) == [Msg("DiagnosticsLoadedMsg") EXCEPT !.text = output]
RefreshPackagesMsg == Msg("RefreshPackagesMsg")
RefreshOutdatedMsg == Msg("RefreshOutdatedMsg")
RequestUninstallMsg(pkg) == [Msg("RequestUninstallMsg") EXCEPT !.pkg = pkg]
NavigateToDetailsMsg == Msg("NavigateToDetailsMsg")
NavigateMsg(view) == [Msg("NavigateMsg") EXCEPT !.view = view]
BackMsg == Msg("BackMsg")
QuitMsg == Msg("QuitMsg")
\* app.PackagesLoadedMsg / app.OutdatedLoadedMsg / app.ErrorMsg, and the
\* views.PackagesLoadedMsg / views.OutdatedLoadedMsg the shell forwards
AppPackagesLoadedMsg(pkgs) == [Msg("app.PackagesLoadedMsg") EXCEPT !.pkgs = pkgs]
AppOutdatedLoadedMsg(names) == [Msg("app.OutdatedLoadedMsg") EXCEPT !.names = names]
AppErrorMsg(err) == [Msg("app.ErrorMsg") EXCEPT !.text = err]
PackagesLoadedMsg(pkgs) == [Msg("PackagesLoadedMsg") EXCEPT !.pkgs = pkgs]
OutdatedLoadedMsg(names) == [Msg("OutdatedLoadedMsg") EXCEPT !.names = names]

\* a command that only returns a message (a closure, or a tea.Tick)
Send(msg) == [kind |-> "msg", msg |-> msg, op |-> "", name |-> "", query |-> <<>>, from |-> ""]
\* a command that calls the Package Manager Client and returns its completion
Call(op, name, from) ==
    [kind |-> "call", msg |-> Msg("none"), op |-> op, name |-> name, query |-> <<>>, from |-> from]
CallSearch(query, from) ==
    [kind |-> "call", msg |-> Msg("none"), op |-> "Search", name |-> "", query |-> query, from |-> from]

\* the error execute() builds: "brew <subcommand> failed: ..."
BrewError(op) == <<"brew failed", op>>

MutatingOps == {"Install", "Uninstall", "Upgrade", "UpgradeAll", "Doctor", "Cleanup", "Autoremove"}


(***************************************************************************)
(* components.Dialog                                                       *)
(***************************************************************************)
\* NewConfirmDialog: buttons {"Confirm", "Cancel"}, hidden, Confirm selected
DialogButtons == 2
NewConfirmDialog == [visible |-> FALSE, selectedBtn |-> 0, message |-> noPrompt]

\* Dialog.Show
DialogShow_KeepsSelection(d) == [d EXCEPT !.visible = TRUE]
DialogShow(d) == [d EXCEPT !.visible = TRUE, !.selectedBtn = 0]

\* Dialog.SetMessage
DialogSetMessage(d, message) == [d EXCEPT !.message = message]

\* the Confirmed flag of the DialogMsg emitted on Enter by a DialogConfirm dialog
EnterConfirmed_AlwaysTrue(d) == TRUE
EnterConfirmed(d) == d.selectedBtn = 0

\* the Confirmed flag of the DialogMsg emitted on Esc
EscConfirmed(d) == FALSE

\* Dialog.Update: the dialog and the commands it returns
DialogUpdate(d, msg) ==
    IF ~d.visible THEN [d |-> d, cmds |-> <<>>]
    ELSE IF msg.type # "KeyMsg" THEN [d |-> d, cmds |-> <<>>]
    ELSE CASE msg.key = "left" ->
                [d |-> IF d.selectedBtn > 0 THEN [d EXCEPT !.selectedBtn = @ - 1] ELSE d,
                 cmds |-> <<>>]
           [] msg.key = "right" ->
                [d |-> IF d.selectedBtn < DialogButtons - 1
                       THEN [d EXCEPT !.selectedBtn = @ + 1] ELSE d,
                 cmds |-> <<>>]
           [] msg.key = "tab" ->
                [d |-> [d EXCEPT !.selectedBtn = (@ + 1) % DialogButtons], cmds |-> <<>>]
           [] msg.key = "enter" ->
                [d |-> [d EXCEPT !.visible = FALSE],
                 cmds |-> << Send(DialogMsg(EnterConfirmed(d), d.message)) >>]
           [] msg.key = "esc" ->
                [d |-> [d EXCEPT !.visible = FALSE],
                 cmds |-> << Send(DialogMsg(EscConfirmed(d), d.message)) >>]
           [] OTHER -> [d |-> d, cmds |-> <<>>]

(***************************************************************************)
(* state.State (the shared state store)                                    *)
(***************************************************************************)
NewState == [InstalledPackages |-> <<>>, OutdatedPackages |-> <<>>,
             SelectedPackage |-> nilPkg, TotalInstalled |-> 0, TotalOutdated |-> 0,
             ErrorMsg |-> <<>>, SuccessMsg |-> <<>>, Favorites |-> <<>>]

\* the favorites file: whether it exists, the names it lists, and whether the
\* configuration directory can be written
File(exists, names, writable) == [exists |-> exists, names |-> names, writable |-> writable]
NoFile == File(FALSE, <<>>, TRUE)
FavoritesFiles == { File(e, IF e THEN <<"a">> ELSE <<>>, w) : e, w \in BOOLEAN }
\* LoadFavorites: no file is no favorites
LoadFavorites(file) == IF file.exists THEN file.names ELSE <<>>
\* SaveFavorites: the file holds the list afterwards, unless the directory or
\* the file cannot be written: then the error is returned and nothing changes
SaveFavorites_Skipped(favorites, file) == file
SaveFavorites(favorites, file) ==
    IF file.writable THEN File(TRUE, favorites, TRUE) ELSE file

SetInstalled(s, packages) ==
    [s EXCEPT !.InstalledPackages = packages, !.TotalInstalled = Len(packages)]
SetOutdated(s, packages) ==
    [s EXCEPT !.OutdatedPackages = packages, !.TotalOutdated = Len(packages)]
SetSelectedPackage(s, pkg) == [s EXCEPT !.SelectedPackage = pkg]
SetError_Blanking(s, err) ==
    [s EXCEPT !.ErrorMsg = err, !.InstalledPackages = <<>>, !.TotalInstalled = 0]
SetError(s, err) == [s EXCEPT !.ErrorMsg = err]
SetSuccess(s, text) == [s EXCEPT !.SuccessMsg = text]
ClearMessages(s) == [s EXCEPT !.ErrorMsg = <<>>, !.SuccessMsg = <<>>]
\* the filters keep their NewState defaults (ShowFormulae, ShowCasks, no
\* OnlyOutdated, no OnlyPinned): nothing in the program changes them
GetFilteredPackages(s) == s.InstalledPackages
GetOutdatedCount(s) == s.TotalOutdated

(***************************************************************************)
(* views.DashboardView                                                     *)
(***************************************************************************)
NewDashboardView ==
    [searchFocused |-> FALSE, searchValue |-> <<>>, searchResults |-> <<>>,
     focusedPanel |-> PanelInstalled, selectedPkg |-> nilPkg, packageInfo |-> nilInfo,
     loadingInfo |-> FALSE, searching |-> FALSE,
     installedIndex |-> 0, searchIndex |-> 0,
     installedScroll |-> 0, searchScroll |-> 0, depScroll |-> 0,
     pendingPackage |-> nilPkg, debounceID |-> 0,
     operationInProgress |-> FALSE, operationMessage |-> <<>>,
     dialog |-> NewConfirmDialog, pendingAction |-> "",
     logs |-> <<>>, height |-> 0]

\* a handler's result: the view, the store and the commands returned
Ret(v, st, cmds) == [v |-> v, st |-> st, cmds |-> cmds]

\* a log line: its prefix ("->" started, "OK" the check mark, "!" the warning
\* sign, "Error:", or none), its text and the number formatted into it
LogEntry(prefix, text, n) == [prefix |-> prefix, text |-> text, n |-> n]

\* addLog
addLog_KeepOldest(v, entry) ==
    LET l == Append(v.logs, entry)
    IN [v EXCEPT !.logs = IF Len(l) > LogCap THEN SubSeq(l, 1, LogCap) ELSE l]
addLog(v, entry) ==
    LET l == Append(v.logs, entry)
    IN [v EXCEPT !.logs = IF Len(l) > LogCap THEN SubSeq(l, Len(l) - LogCap + 1, Len(l)) ELSE l]

\* int(float64(contentHeight) * 0.35) for the heights a terminal reports
Scale35(contentHeight) == IF contentHeight >= 0 THEN (contentHeight * 35) \div 100
                          ELSE -(((-contentHeight) * 35) \div 100)
Max(a, b) == IF a > b THEN a ELSE b
getInstalledVisibleLines(v) == (v.height - 1) - InstalledChrome
getSearchVisibleLines(v) == Max(Scale35(v.height - 1) - SearchChrome, SearchMinLines)
getDependenciesVisibleLines(v) == Max(Scale35(v.height - 1) - DepChrome, DepMinLines)

\* loadPackageInfo: sets loadingInfo and returns the Info call
loadPackageInfo(v, pkg) ==
    [v |-> [v EXCEPT !.loadingInfo = TRUE], cmd |-> Call("Info", pkg.Name, "dashboard")]

\* updateSelectedPackage
updateSelectedPackage(v, st) ==
    CASE v.focusedPanel = PanelInstalled ->
            LET packages == GetFilteredPackages(st)
            IN IF v.installedIndex >= 0 /\ v.installedIndex < Len(packages)
               THEN [v EXCEPT !.selectedPkg = packages[v.installedIndex + 1]] ELSE v
      [] v.focusedPanel = PanelSearch ->
            IF v.searchIndex >= 0 /\ v.searchIndex < Len(v.searchResults)
            THEN [v EXCEPT !.selectedPkg = v.searchResults[v.searchIndex + 1]] ELSE v
      [] OTHER -> v

\* debouncedLoadPackageInfo: bumps the token and schedules the 200ms tick
debouncedLoadPackageInfo_SameToken(v, pkg) ==
    LET w == [v EXCEPT !.pendingPackage = pkg]
    IN [v |-> w, cmds |-> << Send(DebouncedLoadMsg(pkg, w.debounceID)) >>]
debouncedLoadPackageInfo(v, pkg) ==
    LET w == [v EXCEPT !.debounceID = @ + 1, !.pendingPackage = pkg]
    IN [v |-> w, cmds |-> << Send(DebouncedLoadMsg(pkg, w.debounceID)) >>]

\* loadSelectedPackageInfo
loadSelectedPackageInfo(v) ==
    IF v.selectedPkg # nilPkg THEN debouncedLoadPackageInfo(v, v.selectedPkg)
    ELSE [v |-> v, cmds |-> <<>>]

\* performSearch
performSearch(v, query) ==
    [v |-> [v EXCEPT !.searching = TRUE], cmd |-> CallSearch(query, "dashboard")]

\* installPackage, uninstallPackage, upgradePackage, upgradeAll, runDoctor,
\* runCleanup, runAutoremove: status, "→ ..." log entry and the client call
startOperation_Silent(v, op, name) ==
    LET w == [v EXCEPT !.operationInProgress = TRUE, !.operationMessage = <<op, name>>]
    IN [v |-> w, cmd |-> Call(op, name, "dashboard")]
startOperation(v, op, name) ==
    LET w == [v EXCEPT !.operationInProgress = TRUE, !.operationMessage = <<op, name>>]
    IN [v |-> addLog(w, LogEntry("->", <<op, name>>, 0)), cmd |-> Call(op, name, "dashboard")]

\* refresh: status and a RefreshPackagesMsg, no log entry
refresh(v) ==
    [v |-> [v EXCEPT !.operationInProgress = TRUE, !.operationMessage = <<"Refreshing", "">>],
     cmd |-> Send(RefreshPackagesMsg)]

\* DashboardView.Init
DashboardInit_ResetsToken(v, st) ==
    LET w1 == addLog([v EXCEPT !.operationInProgress = TRUE,
                               !.operationMessage = <<"Loading", "">>],
                     LogEntry("->", <<"Loading", "">>, 0))
        w2 == [w1 EXCEPT !.installedIndex = 0, !.debounceID = 0]
        packages == GetFilteredPackages(st)
    IN IF Len(packages) > 0
       THEN LET r == loadPackageInfo([w2 EXCEPT !.selectedPkg = packages[1]], packages[1])
            IN Ret(r.v, st, << r.cmd >>)
       ELSE Ret(w2, st, <<>>)
DashboardInit(v, st) ==
    LET w1 == addLog([v EXCEPT !.operationInProgress = TRUE,
                               !.operationMessage = <<"Loading", "">>],
                     LogEntry("->", <<"Loading", "">>, 0))
        w2 == [w1 EXCEPT !.installedIndex = 0]
        packages == GetFilteredPackages(st)
    IN IF Len(packages) > 0
       THEN LET r == loadPackageInfo([w2 EXCEPT !.selectedPkg = packages[1]], packages[1])
            IN Ret(r.v, st, << r.cmd >>)
       ELSE Ret(w2, st, <<>>)


\* line 237: a visible dialog takes the message and Update returns
DialogSwallows_Never(v) == FALSE
DialogSwallows(v) == v.dialog.visible

\* the request phase of a confirmable action: pendingAction, Blur, SetMessage, Show
RequestAction_AndStart(v, action, prompt) ==
    [v EXCEPT !.pendingAction = action, !.searchFocused = FALSE,
              !.dialog = DialogShow(DialogSetMessage(v.dialog, prompt)),
              !.operationInProgress = TRUE]
RequestAction(v, action, prompt) ==
    [v EXCEPT !.pendingAction = action, !.searchFocused = FALSE,
              !.dialog = DialogShow(DialogSetMessage(v.dialog, prompt))]

\* lines 533-551: a message no case returned for goes to the bubbles list of the
\* Installed panel; that component is a library and none of the fields above is
\* written on this path
FocusedPanelUpdate(v, st, msg) == Ret(v, st, <<>>)

\* case components.DialogMsg
OnDialogMsg(v, st, msg) ==
    LET start(op, name) == LET r == startOperation(v, op, name) IN Ret(r.v, st, << r.cmd >>)
        clear == Ret([v EXCEPT !.pendingAction = ""], st, <<>>)
    IN IF ~msg.ok THEN clear
       ELSE CASE v.pendingAction = "install" ->
                    IF v.selectedPkg # nilPkg THEN start("Install", v.selectedPkg.Name) ELSE clear
              [] v.pendingAction = "uninstall" ->
                    IF v.selectedPkg # nilPkg THEN start("Uninstall", v.selectedPkg.Name) ELSE clear
              [] v.pendingAction = "upgrade" ->
                    IF v.selectedPkg # nilPkg THEN start("Upgrade", v.selectedPkg.Name) ELSE clear
              [] v.pendingAction = "upgradeAll" -> start("UpgradeAll", "")
              [] v.pendingAction = "doctor" -> start("Doctor", "")
              [] v.pendingAction = "cleanup" -> start("Cleanup", "")
              [] v.pendingAction = "autoremove" -> start("Autoremove", "")
              [] OTHER -> clear

\* case tea.KeyMsg while the search input is focused
OnKeySearchFocused_TabKeepsFocus(v, st, k) ==
    CASE k = "esc" -> Ret([v EXCEPT !.searchFocused = FALSE], st, <<>>)
      [] k = "enter" ->
            IF v.searchValue # <<>>
            THEN LET r == performSearch(v, v.searchValue) IN Ret(r.v, st, << r.cmd >>)
            ELSE Ret(v, st, <<>>)
      [] k = "tab" -> Ret([v EXCEPT !.focusedPanel = PanelDependencies], st, <<>>)
      [] OTHER ->
            IF k \in RuneKeys /\ Len(v.searchValue) < CharLimit
            THEN Ret([v EXCEPT !.searchValue = Append(@, k)], st, <<>>)
            ELSE Ret(v, st, <<>>)
OnKeySearchFocused(v, st, k) ==
    CASE k = "esc" -> Ret([v EXCEPT !.searchFocused = FALSE], st, <<>>)
      [] k = "enter" ->
            IF v.searchValue # <<>>
            THEN LET r == performSearch(v, v.searchValue) IN Ret(r.v, st, << r.cmd >>)
            ELSE Ret(v, st, <<>>)
      [] k = "tab" ->
            Ret([v EXCEPT !.searchFocused = FALSE, !.focusedPanel = PanelDependencies], st, <<>>)
      [] OTHER ->
            IF k \in RuneKeys /\ Len(v.searchValue) < CharLimit
            THEN Ret([v EXCEPT !.searchValue = Append(@, k)], st, <<>>)
            ELSE Ret(v, st, <<>>)

\* case "up", "k"
OnKeyUp(v, st, msg) ==
    CASE v.focusedPanel = PanelInstalled /\ v.installedIndex > 0 ->
            LET w1 == [v EXCEPT !.installedIndex = @ - 1]
                w2 == IF w1.installedIndex < w1.installedScroll
                      THEN [w1 EXCEPT !.installedScroll = w1.installedIndex] ELSE w1
                r == loadSelectedPackageInfo(updateSelectedPackage(w2, st))
            IN Ret(r.v, st, r.cmds)
      [] v.focusedPanel = PanelSearch /\ v.searchIndex > 0 ->
            LET w1 == [v EXCEPT !.searchIndex = @ - 1]
                w2 == IF w1.searchIndex < w1.searchScroll
                      THEN [w1 EXCEPT !.searchScroll = w1.searchIndex] ELSE w1
                r == loadSelectedPackageInfo(updateSelectedPackage(w2, st))
            IN Ret(r.v, st, r.cmds)
      [] v.focusedPanel = PanelDependencies /\ v.depScroll > 0 ->
            Ret([v EXCEPT !.depScroll = @ - 1], st, <<>>)
      [] OTHER -> Ret(v, st, <<>>)

\* case "down", "j"
OnKeyDown(v, st, msg) ==
    CASE v.focusedPanel = PanelInstalled /\ v.installedIndex < Len(GetFilteredPackages(st)) - 1 ->
            LET w1 == [v EXCEPT !.installedIndex = @ + 1]
                visibleLines == getInstalledVisibleLines(w1)
                w2 == IF w1.installedIndex >= w1.installedScroll + visibleLines
                      THEN [w1 EXCEPT !.installedScroll = w1.installedIndex - visibleLines + 1]
                      ELSE w1
                r == loadSelectedPackageInfo(updateSelectedPackage(w2, st))
            IN Ret(r.v, st, r.cmds)
      [] v.focusedPanel = PanelSearch /\ v.searchIndex < Len(v.searchResults) - 1 ->
            LET w1 == [v EXCEPT !.searchIndex = @ + 1]
                visibleLines == getSearchVisibleLines(w1)
                w2 == IF w1.searchIndex >= w1.searchScroll + visibleLines
                      THEN [w1 EXCEPT !.searchScroll = w1.searchIndex - visibleLines + 1]
                      ELSE w1
                r == loadSelectedPackageInfo(updateSelectedPackage(w2, st))
            IN Ret(r.v, st, r.cmds)
      [] v.focusedPanel = PanelDependencies /\ v.packageInfo # nilInfo ->
            LET maxScroll == Max(v.packageInfo.Dependencies - getDependenciesVisibleLines(v), 0)
            IN Ret(IF v.depScroll < maxScroll THEN [v EXCEPT !.depScroll = @ + 1] ELSE v, st, <<>>)
      [] OTHER -> Ret(v, st, <<>>)

\* case "tab"
OnKeyTab_Bounce(v, st, msg) ==
    LET w == [v EXCEPT !.searchFocused = FALSE]
    IN CASE v.focusedPanel = PanelInstalled ->
                Ret([w EXCEPT !.focusedPanel = PanelSearch, !.searchFocused = TRUE], st, <<>>)
         [] v.focusedPanel = PanelSearch ->
                Ret([w EXCEPT !.focusedPanel = PanelDependencies], st, <<>>)
         [] OTHER -> Ret([w EXCEPT !.focusedPanel = PanelSearch], st, <<>>)
OnKeyTab(v, st, msg) ==
    LET w == [v EXCEPT !.searchFocused = FALSE]
    IN CASE v.focusedPanel = PanelInstalled ->
                Ret([w EXCEPT !.focusedPanel = PanelSearch, !.searchFocused = TRUE], st, <<>>)
         [] v.focusedPanel = PanelSearch ->
                Ret([w EXCEPT !.focusedPanel = PanelDependencies], st, <<>>)
         [] OTHER -> Ret([w EXCEPT !.focusedPanel = PanelInstalled], st, <<>>)

\* line 414: upgrade-all is offered only when something is outdated
UpgradeAllOffered_Always(st) == TRUE
UpgradeAllOffered(st) == GetOutdatedCount(st) > 0

\* case tea.KeyMsg while the search input is not focused
OnKey(v, st, msg) ==
    LET k == msg.key
        request(action, prompt) == Ret(RequestAction(v, action, prompt), st, <<>>)
    IN CASE k = "up" -> OnKeyUp(v, st, msg)
         [] k = "down" -> OnKeyDown(v, st, msg)
         [] k = "tab" -> OnKeyTab(v, st, msg)
         [] k = "enter" ->
                IF /\ v.focusedPanel = PanelSearch /\ Len(v.searchResults) > 0 /\ ~v.searchFocused
                   /\ v.selectedPkg # nilPkg /\ ~v.selectedPkg.Installed
                THEN request("install", Prompt("Install", v.selectedPkg.Name, 0))
                ELSE FocusedPanelUpdate(v, st, msg)
         [] k = "u" ->
                IF v.focusedPanel = PanelInstalled /\ v.selectedPkg # nilPkg /\ v.selectedPkg.Outdated
                THEN request("upgrade", Prompt("Upgrade", v.selectedPkg.Name, 0))
                ELSE FocusedPanelUpdate(v, st, msg)
         [] k = "x" ->
                IF v.focusedPanel = PanelInstalled /\ v.selectedPkg # nilPkg
                THEN request("uninstall", Prompt("Uninstall", v.selectedPkg.Name, 0))
                ELSE FocusedPanelUpdate(v, st, msg)
         [] k = "U" ->
                IF v.focusedPanel = PanelInstalled
                THEN IF UpgradeAllOffered(st)
                     THEN request("upgradeAll", Prompt("Upgrade all outdated", "", GetOutdatedCount(st)))
                     ELSE Ret(v, st, <<>>)
                ELSE FocusedPanelUpdate(v, st, msg)
         [] k = "r" -> LET r == refresh(v) IN Ret(r.v, st, << r.cmd >>)
         [] k = "d" -> request("doctor", Prompt("Run brew doctor", "", 0))
         [] k = "c" -> request("cleanup", Prompt("Run brew cleanup", "", 0))
         [] k = "a" -> request("autoremove", Prompt("Run brew autoremove", "", 0))
         [] OTHER -> FocusedPanelUpdate(v, st, msg)


\* line 449: the tick is current and carries a package
DebounceMatches_Always(v, msg) == msg.pkg # nilPkg
DebounceMatches(v, msg) == msg.id = v.debounceID /\ msg.pkg # nilPkg

\* case DebouncedLoadMsg
OnDebouncedLoadMsg(v, st, msg) ==
    IF DebounceMatches(v, msg)
    THEN LET r == loadPackageInfo(v, msg.pkg) IN Ret(r.v, st, << r.cmd >>)
    ELSE Ret(v, st, <<>>)

\* case PackageInfoLoadedMsg
OnPackageInfoLoadedMsg(v, st, msg) ==
    Ret([v EXCEPT !.packageInfo = msg.info, !.loadingInfo = FALSE, !.depScroll = 0], st, <<>>)

\* case SearchResultsMsg
OnSearchResultsMsg(v, st, msg) ==
    LET w == [v EXCEPT !.searchResults = msg.pkgs, !.searching = FALSE, !.searchIndex = 0,
                       !.searchScroll = 0, !.searchFocused = FALSE]
    IN IF Len(w.searchResults) > 0
       THEN LET r == loadPackageInfo([w EXCEPT !.selectedPkg = w.searchResults[1]],
                                     w.searchResults[1])
            IN Ret(r.v, st, << r.cmd >>)
       ELSE Ret(w, st, <<>>)

\* case PackagesLoadedMsg
OnPackagesLoadedMsg(v, st, msg) ==
    LET packages == GetFilteredPackages(st)
        w == addLog([v EXCEPT !.operationInProgress = FALSE, !.operationMessage = <<>>,
                              !.installedIndex = 0, !.installedScroll = 0],
                    LogEntry("OK", <<"Loaded packages">>, Len(packages)))
    IN IF Len(packages) > 0
       THEN LET r == loadPackageInfo([w EXCEPT !.selectedPkg = packages[1]], packages[1])
            IN Ret(r.v, st, << r.cmd >>)
       ELSE Ret(w, st, <<>>)

\* the loop of lines 490-495: the filtered packages whose Outdated flag is set
CountOutdated(packages) == Cardinality({i \in 1..Len(packages) : packages[i].Outdated})

\* case OutdatedLoadedMsg
OnOutdatedLoadedMsg(v, st, msg) ==
    LET outdatedCount == CountOutdated(GetFilteredPackages(st))
        w == [v EXCEPT !.operationInProgress = FALSE, !.operationMessage = <<>>]
    IN Ret(IF outdatedCount > 0
           THEN addLog(w, LogEntry("!", <<"Found outdated packages">>, outdatedCount))
           ELSE addLog(w, LogEntry("OK", <<"All packages are up to date">>, 0)),
           st, <<>>)

\* case SuccessMsgView
OnSuccessMsgView(v, st, msg) ==
    Ret(addLog([v EXCEPT !.operationInProgress = FALSE, !.operationMessage = <<>>],
               LogEntry("OK", msg.text, 0)),
        SetSuccess(st, msg.text), << Send(RefreshPackagesMsg) >>)

\* case ErrorMsgView
OnErrorMsgView_Retry(v, st, msg) ==
    Ret(addLog([v EXCEPT !.loadingInfo = FALSE, !.searching = FALSE,
                         !.operationInProgress = FALSE, !.operationMessage = <<>>],
               LogEntry("Error:", msg.text, 0)),
        SetError(st, msg.text), << Send(RefreshPackagesMsg) >>)
OnErrorMsgView(v, st, msg) ==
    Ret(addLog([v EXCEPT !.loadingInfo = FALSE, !.searching = FALSE,
                         !.operationInProgress = FALSE, !.operationMessage = <<>>],
               LogEntry("Error:", msg.text, 0)),
        SetError(st, msg.text), <<>>)

\* the loop of lines 524-528: every non-blank line becomes a log entry
RECURSIVE addLines(_, _)
addLines_Summarised(v, lines) ==
    IF lines = <<>> THEN v ELSE addLog(v, LogEntry("", <<Head(lines)>>, Len(lines)))
addLines(v, lines) ==
    IF lines = <<>> THEN v
    ELSE addLines(IF Head(lines) # "" THEN addLog(v, LogEntry("", <<Head(lines)>>, 0)) ELSE v,
                  Tail(lines))

\* case DoctorOutputMsg
OnDoctorOutputMsg(v, st, msg) ==
    Ret(addLog(addLines([v EXCEPT !.operationInProgress = FALSE, !.operationMessage = <<>>],
                        msg.text),
               LogEntry("OK", <<"Doctor completed">>, 0)),
        st, <<>>)

\* DashboardView.Update
DashboardUpdate(v, st, msg) ==
    IF DialogSwallows(v)
    THEN LET r == DialogUpdate(v.dialog, msg) IN Ret([v EXCEPT !.dialog = r.d], st, r.cmds)
    ELSE CASE msg.type = "DialogMsg" -> OnDialogMsg(v, st, msg)
           [] msg.type = "KeyMsg" ->
                IF v.searchFocused THEN OnKeySearchFocused(v, st, msg.key) ELSE OnKey(v, st, msg)
           [] msg.type = "DebouncedLoadMsg" -> OnDebouncedLoadMsg(v, st, msg)
           [] msg.type = "PackageInfoLoadedMsg" -> OnPackageInfoLoadedMsg(v, st, msg)
           [] msg.type = "SearchResultsMsg" -> OnSearchResultsMsg(v, st, msg)
           [] msg.type = "PackagesLoadedMsg" -> OnPackagesLoadedMsg(v, st, msg)
           [] msg.type = "OutdatedLoadedMsg" -> OnOutdatedLoadedMsg(v, st, msg)
           [] msg.type = "SuccessMsgView" -> OnSuccessMsgView(v, st, msg)
           [] msg.type = "ErrorMsgView" -> OnErrorMsgView(v, st, msg)
           [] msg.type = "DoctorOutputMsg" -> OnDoctorOutputMsg(v, st, msg)
           [] OTHER -> FocusedPanelUpdate(v, st, msg)


(***************************************************************************)
(* The other views reachable from the shell's number keys.  Each has a     *)
(* bubbles list or viewport of its own; their cursors are library state    *)
(* and stay at the first item here.                                        *)
(***************************************************************************)
NewInstalledView == [items |-> <<>>, selectedPkg |-> nilPkg, packageInfo |-> nilInfo,
                     loadingInfo |-> FALSE, focusOnDetail |-> FALSE]
NewOutdatedView == [items |-> <<>>]
NewDiagnosticsView == [output |-> <<>>, loading |-> FALSE]
NewViews == [installed |-> NewInstalledView, outdated |-> NewOutdatedView,
             diagnostics |-> NewDiagnosticsView]

\* what a view's Init or Update hands back to the shell
Out(dash, views, st, cmds) == [dash |-> dash, views |-> views, st |-> st, cmds |-> cmds]

\* PackageList.GetCurrentPackage with the cursor on the first item
GetCurrentPackage(items) == IF Len(items) > 0 THEN items[1] ELSE nilPkg

\* InstalledView.Init
InstalledInit(w, st) ==
    LET w1 == [w EXCEPT !.items = GetFilteredPackages(st)]
        pkg == GetCurrentPackage(w1.items)
    IN IF pkg # nilPkg
       THEN [w |-> [w1 EXCEPT !.selectedPkg = pkg, !.loadingInfo = TRUE], st |-> st,
             cmds |-> << Call("Info", pkg.Name, "installed") >>]
       ELSE [w |-> w1, st |-> st, cmds |-> <<>>]

\* InstalledView.Update
InstalledUpdate(w, st, msg) ==
    LET pkg == GetCurrentPackage(w.items)
        same == [w |-> w, st |-> st, cmds |-> <<>>]
    IN CASE msg.type = "KeyMsg" /\ msg.key = "tab" ->
                [w |-> [w EXCEPT !.focusOnDetail = ~@], st |-> st, cmds |-> <<>>]
         [] msg.type = "KeyMsg" /\ msg.key = "enter" /\ pkg # nilPkg ->
                [w |-> w, st |-> SetSelectedPackage(st, pkg), cmds |-> << Send(NavigateToDetailsMsg) >>]
         [] msg.type = "KeyMsg" /\ msg.key = "u" /\ pkg # nilPkg ->
                [w |-> w, st |-> st, cmds |-> << Send(RequestUninstallMsg(pkg)) >>]
         [] msg.type = "KeyMsg" /\ msg.key = "r" ->
                [w |-> w, st |-> st, cmds |-> << Send(RefreshPackagesMsg) >>]
         [] msg.type = "PackageInfoLoadedMsg" ->
                [w |-> [w EXCEPT !.packageInfo = msg.info, !.loadingInfo = FALSE], st |-> st,
                 cmds |-> <<>>]
         [] msg.type = "ErrorMsgView" ->
                [w |-> [w EXCEPT !.loadingInfo = FALSE], st |-> st, cmds |-> <<>>]
         [] OTHER -> same

\* OutdatedView.Init
OutdatedInit(w, st) == [w |-> [w EXCEPT !.items = st.OutdatedPackages], st |-> st, cmds |-> <<>>]

\* OutdatedView.Update: u and U call Upgrade straight away
OutdatedUpdate(w, st, msg) ==
    CASE msg.type = "KeyMsg" /\ msg.key = "u" /\ Len(w.items) > 0 ->
            [w |-> w, st |-> st, cmds |-> << Call("Upgrade", w.items[1], "outdated") >>]
      [] msg.type = "KeyMsg" /\ msg.key = "U" ->
            [w |-> w, st |-> st, cmds |-> << Call("UpgradeAll", "", "outdated") >>]
      [] msg.type = "KeyMsg" /\ msg.key = "r" ->
            [w |-> w, st |-> st, cmds |-> << Send(RefreshOutdatedMsg) >>]
      [] OTHER -> [w |-> w, st |-> st, cmds |-> <<>>]

\* DiagnosticsView.runDiagnostics
runDiagnostics(w, st) ==
    [w |-> [w EXCEPT !.loading = TRUE], st |-> st, cmds |-> << Call("Doctor", "", "diagnostics") >>]

\* DiagnosticsView.Init
DiagnosticsInit(w, st) == runDiagnostics(w, st)

\* DiagnosticsView.Update
DiagnosticsUpdate(w, st, msg) ==
    CASE msg.type = "KeyMsg" /\ msg.key = "r" -> runDiagnostics(w, st)
      [] msg.type = "DiagnosticsLoadedMsg" ->
            [w |-> [w EXCEPT !.output = msg.text, !.loading = FALSE], st |-> st, cmds |-> <<>>]
      [] msg.type = "ErrorMsgView" ->
            [w |-> [w EXCEPT !.output = <<"Error running diagnostics">> \o msg.text,
                             !.loading = FALSE],
             st |-> st, cmds |-> <<>>]
      [] OTHER -> [w |-> w, st |-> st, cmds |-> <<>>]

\* m.views[view].Init()
\* what a view's method did, seen from the application shell: r is the record a
\* dashboard method returns, w the one another view's method returns
OfDashboard(r, views) == Out(r.v, views, r.st, r.cmds)
OfInstalled(w, dash, views) == Out(dash, [views EXCEPT !.installed = w.w], w.st, w.cmds)
OfOutdated(w, dash, views) == Out(dash, [views EXCEPT !.outdated = w.w], w.st, w.cmds)
OfDiagnostics(w, dash, views) == Out(dash, [views EXCEPT !.diagnostics = w.w], w.st, w.cmds)

ViewInit(view, dash, views, st) ==
    CASE view = ViewHome -> OfDashboard(DashboardInit(dash, st), views)
      [] view = ViewInstalled -> OfInstalled(InstalledInit(views.installed, st), dash, views)
      [] view = ViewOutdated -> OfOutdated(OutdatedInit(views.outdated, st), dash, views)
      [] OTHER -> OfDiagnostics(DiagnosticsInit(views.diagnostics, st), dash, views)

\* m.views[view].Update(msg)
ViewUpdate(view, dash, views, st, msg) ==
    CASE view = ViewHome -> OfDashboard(DashboardUpdate(dash, st, msg), views)
      [] view = ViewInstalled ->
            OfInstalled(InstalledUpdate(views.installed, st, msg), dash, views)
      [] view = ViewOutdated -> OfOutdated(OutdatedUpdate(views.outdated, st, msg), dash, views)
      [] OTHER -> OfDiagnostics(DiagnosticsUpdate(views.diagnostics, st, msg), dash, views)

(***************************************************************************)
(* app.Model (the application shell)                                       *)
(***************************************************************************)
NewModel == [currentView |-> ViewHome, viewStack |-> <<>>, height |-> 0, ready |-> FALSE,
             quit |-> FALSE]

\* the whole program state an Update reads and writes, and the commands it returns
Prog(m, dash, views, st, cmds) ==
    [m |-> m, dash |-> dash, views |-> views, st |-> st, cmds |-> cmds]

\* the view the global number keys navigate to
NavTarget(k) == CASE k = "1" -> ViewHome
                  [] k = "2" -> ViewInstalled
                  [] k = "4" -> ViewOutdated
                  [] OTHER -> ViewDiagnostics

\* the shell's model m with what the view did
OfView(m, r) == Prog(m, r.dash, r.views, r.st, r.cmds)

\* lines 232-254: the shell stores a loaded list, then hands the current view the
\* view-level message; every other message reaches the view as it is
ToView(msg) ==
    CASE msg.type = "app.PackagesLoadedMsg" -> PackagesLoadedMsg(msg.pkgs)
      [] msg.type = "app.OutdatedLoadedMsg" -> OutdatedLoadedMsg(msg.names)
      [] OTHER -> msg
Stored(st, msg) ==
    CASE msg.type = "app.PackagesLoadedMsg" -> SetInstalled(st, msg.pkgs)
      [] msg.type = "app.OutdatedLoadedMsg" -> SetOutdated(st, msg.names)
      [] OTHER -> st

\* lines 175-203: the global key bindings, checked before the current view
GlobalKey(m, msg) ==
    /\ msg.type = "KeyMsg"
    /\ \/ msg.key \in {"q", "?", "1", "2", "4", "6"}
       \/ msg.key = "esc" /\ Len(m.viewStack) > 0
AppKey(m, dash, views, st, msg) ==
    LET k == msg.key
    IN CASE k = "q" -> Prog(m, dash, views, st, << Send(QuitMsg) >>)
         [] k = "esc" -> Prog(m, dash, views, st, << Send(BackMsg) >>)
         [] k = "?" -> Prog(m, dash, views, st, <<>>)
         [] OTHER -> Prog(m, dash, views, st, << Send(NavigateMsg(NavTarget(k))) >>)

\* lines 178-181: the quit binding saves the favorites, ignoring the error, before
\* it returns tea.Quit; no other message touches the file
Saved(m, st, msg, file) ==
    IF GlobalKey(m, msg) /\ msg.key = "q" THEN SaveFavorites(st.Favorites, file) ELSE file

\* lines 205-214: NavigateMsg pushes the current view and runs the target's Init
AppNavigate(m, dash, views, st, msg) ==
    OfView([m EXCEPT !.viewStack = Append(@, m.currentView), !.currentView = msg.view],
           ViewInit(msg.view, dash, views, ClearMessages(st)))

\* Model.Update.  The shell's own dialog is never shown, and the spinner ticks
\* only animate: neither is modelled.  tea.Quit ends the program when its
\* QuitMsg reaches the event loop.
AppUpdate(m, dash, views, st, msg) ==
    CASE msg.type = "QuitMsg" -> Prog([m EXCEPT !.quit = TRUE], dash, views, st, <<>>)
      [] msg.type = "WindowSizeMsg" ->
            Prog([m EXCEPT !.height = msg.id, !.ready = TRUE],
                 [dash EXCEPT !.height = msg.id], views, st, <<>>)
      [] GlobalKey(m, msg) -> AppKey(m, dash, views, st, msg)
      [] msg.type = "NavigateMsg" -> AppNavigate(m, dash, views, st, msg)
      [] msg.type = "BackMsg" ->
            IF Len(m.viewStack) > 0
            THEN Prog([m EXCEPT !.currentView = m.viewStack[Len(m.viewStack)],
                                !.viewStack = SubSeq(@, 1, Len(@) - 1)],
                      dash, views, ClearMessages(st), <<>>)
            ELSE Prog(m, dash, views, st, <<>>)
      [] msg.type = "app.ErrorMsg" -> Prog(m, dash, views, SetError(st, msg.text), <<>>)
      [] msg.type = "RefreshPackagesMsg" ->
            Prog(m, dash, views, st,
                 << Call("ListInstalled", "", "app"), Call("Outdated", "", "app") >>)
      [] OTHER ->
            OfView(m, ViewUpdate(m.currentView, dash, views, Stored(st, msg), ToView(msg)))

\* client.Outdated (client.go:155-161) and loadOutdatedPackages (app.go:392-402):
\* a listing that failed comes back as the empty list.  The text is not a field
\* of the code's message: it records that the listing failed, and no handler
\* reads it.
OutdatedFailed == [AppOutdatedLoadedMsg(<<>>) EXCEPT !.text = BrewError("outdated")]

\* client.Search: what `brew search` finds for a query among the matches l of
\* its first character; a longer query matches fewer packages
Found(l, query) == IF Len(query) <= 1 THEN l ELSE SubSeq(l, 1, 1)

\* the messages a command can come back with, installed being the lists the
\* package manager can report in this session
Results(c, installed) ==
    IF c.kind = "msg" THEN {c.msg}
    ELSE CASE c.op = "ListInstalled" ->
                {AppPackagesLoadedMsg(l) : l \in installed} \cup {AppErrorMsg(BrewError("list"))}
           [] c.op = "Outdated" ->
                {AppOutdatedLoadedMsg(l) : l \in OutdatedLists} \cup {OutdatedFailed}
           [] c.op = "Info" ->
                {PackageInfoLoadedMsg(Info(c.name, n)) : n \in DepCounts}
                    \cup {ErrorMsgView(BrewError("info"))}
           [] c.op = "Search" ->
                {SearchResultsMsg(Found(l, c.query)) : l \in SearchLists}
                    \cup {ErrorMsgView(BrewError("search"))}
           [] c.op = "Doctor" ->
                (IF c.from = "dashboard" THEN {DoctorOutputMsg(t) : t \in DoctorReports}
                 ELSE {DiagnosticsLoadedMsg(o) : o \in DoctorOutputs})
                    \cup {ErrorMsgView(BrewError("doctor"))}
           [] c.op = "Install" ->
                {SuccessMsgView(<<"Installed", c.name>>), ErrorMsgView(BrewError("install"))}
           [] c.op = "Uninstall" ->
                {SuccessMsgView(<<"Uninstalled", c.name>>), ErrorMsgView(BrewError("uninstall"))}
           [] c.op = "Upgrade" ->
                {SuccessMsgView(IF c.from = "dashboard" THEN <<"Upgraded", c.name>>
                                ELSE <<"Successfully upgraded", c.name>>),
                 ErrorMsgView(BrewError("upgrade"))}
           [] c.op = "UpgradeAll" ->
                {SuccessMsgView(IF c.from = "dashboard" THEN <<"Upgraded all packages">>
                                ELSE <<"Successfully upgraded all packages">>),
                 ErrorMsgView(BrewError("upgrade"))}
           [] c.op = "Cleanup" ->
                {SuccessMsgView(<<"Cleanup completed">>), ErrorMsgView(BrewError("cleanup"))}
           [] OTHER ->
                {SuccessMsgView(<<"Autoremove completed">>), ErrorMsgView(BrewError("autoremove"))}

(***************************************************************************)
(* brew.executeStream: the goroutine that runs the command, its two        *)
(* channels, and a consumer that receives from the output channel until it *)
(* is closed and then receives once from the error channel                 *)
(***************************************************************************)
\* make(chan error, 1)
ErrorCap == 1
\* the command writes at most this many chunks before its output ends
MaxChunks == 2
\* what one stdout.Read can put in buf
Chunks == {"line", "rest"}

\* the deferred calls in the order they run when the goroutine returns: the
\* reverse of the order of the defer statements
DeferredCloses_AsWritten == <<"outputChan", "errorChan">>
DeferredCloses == <<"errorChan", "outputChan">>

\* g is the goroutine's position, c the consumer's
Stream(g) ==
    [g |-> g, buf |-> "", eof |-> FALSE, reads |-> 0, err |-> "", sent |-> 0,
     deferred |-> DeferredCloses, errorChan |-> <<>>, errorClosed |-> FALSE,
     outputClosed |-> FALSE, c |-> "output", got |-> <<>>, gotErr |-> ""]
\* executeStream has returned the two channels and its goroutine starts
NewStream == Stream("pipe")
\* executeStream has not been called
NoStream == Stream("none")

\* what a failed step does: the error is to be sent, then the goroutine returns
Fail(s, text) == [s EXCEPT !.g = "sendErr", !.err = text]


(***************************************************************************)
(* The state machine                                                       *)
(***************************************************************************)
VARIABLES
    app,        \* app.Model
    store,      \* state.State
    dash,       \* views.DashboardView
    views,      \* the other views
    inflight,   \* bag of commands running in their goroutines
    operator,   \* the session: the keys the operator uses, how many keystrokes are
                \* left, and the installed lists the package manager can report
    disk,       \* the favorites file
    stream,     \* the goroutine of executeStream, its channels and their consumer
    last        \* the message handled by the last step, the commands it returned, the
                \* questions of all confirmed dialog resolutions handled so far, and the
                \* package of the dashboard's most recently issued detail load

vars == <<app, store, dash, views, inflight, operator, disk, stream, last>>

RECURSIVE SeqToBag(_)
SeqToBag(q) == IF q = <<>> THEN EmptyBag ELSE SetToBag({Head(q)}) (+) SeqToBag(Tail(q))

\* Model.Init: both list loads and the dashboard's Init
Construct ==
    LET r == DashboardInit(NewDashboardView, NewState)
    IN Prog(NewModel, r.v, NewViews, r.st,
            << Call("ListInstalled", "", "app"), Call("Outdated", "", "app") >> \o r.cmds)

\* the program after Model.Update has handled msgs one after the other
RECURSIVE After(_, _)
After(p, msgs) ==
    IF msgs = <<>> THEN p
    ELSE After(AppUpdate(p.m, p.dash, p.views, p.st, Head(msgs)), Tail(msgs))

\* the program once start-up is over: the window size, the installed list, the
\* outdated list and the first package's detail have arrived, nothing is in flight
Started(h, pkgs, names, deps) ==
    After(Construct, << WindowSizeMsg(h), AppPackagesLoadedMsg(pkgs), AppOutdatedLoadedMsg(names),
                        PackageInfoLoadedMsg(Info(pkgs[1].Name, deps)) >>)

\* a session either begins at construction, with start-up still in flight, or
\* once start-up is over
Init ==
    /\ operator \in {[keys |-> s.keys, left |-> MaxKeys, fresh |-> s.fresh, installed |-> s.installed] :
                        s \in Sessions}
    /\ \E p \in IF operator.fresh THEN {Construct}
                ELSE {Started(h, l, o, n) : h \in Heights, l \in InstalledLists,
                                            o \in OutdatedLists, n \in DepCounts} :
          /\ app = p.m
          /\ store = p.st
          /\ dash = p.dash
          /\ views = p.views
          /\ inflight = IF operator.fresh THEN SeqToBag(p.cmds) ELSE EmptyBag
    /\ disk = NoFile
    /\ stream = NoStream
    /\ last = [msg |-> Msg("none"), cmds |-> <<>>, confirmed |-> {},
               loadFor |-> IF operator.fresh THEN "" ELSE dash.selectedPkg.Name,
               searchFor |-> <<>>]

\* the package of the dashboard's detail load among cmds, or before if none
LoadFor(cmds, before) ==
    LET loads == {i \in DOMAIN cmds : cmds[i].kind = "call" /\ cmds[i].op = "Info"
                                         /\ cmds[i].from = "dashboard"}
    IN IF loads = {} THEN before ELSE cmds[CHOOSE i \in loads : \A j \in loads : j <= i].name

\* the query of the dashboard's search among cmds, or before if none
SearchFor(cmds, before) ==
    LET searches == {i \in DOMAIN cmds : cmds[i].kind = "call" /\ cmds[i].op = "Search"
                                            /\ cmds[i].from = "dashboard"}
    IN IF searches = {} THEN before
       ELSE cmds[CHOOSE i \in searches : \A j \in searches : j <= i].query

\* the event loop took msg, Model.Update returned p, and the commands start
Commit(p, msg, rest) ==
    /\ ~app.quit
    /\ app' = p.m
    /\ store' = p.st
    /\ dash' = p.dash
    /\ views' = p.views
    /\ inflight' = rest (+) SeqToBag(p.cmds)
    /\ disk' = Saved(app, store, msg, disk)
    /\ UNCHANGED stream
    /\ last' = [msg |-> msg, cmds |-> p.cmds,
                confirmed |-> IF msg.type = "DialogMsg" /\ msg.ok
                              THEN last.confirmed \cup {msg.prompt.question}
                              ELSE last.confirmed,
                loadFor |-> LoadFor(p.cmds, last.loadFor),
                searchFor |-> SearchFor(p.cmds, last.searchFor)]

\* p changes the program or starts a command; a keystroke or a resize that
\* does neither is a stuttering step
HasEffect(p) ==
    p.cmds # <<>> \/ p.m # app \/ p.dash # dash \/ p.views # views \/ p.st # store

\* the operator presses a key
Key == \E k \in operator.keys :
           \E p \in {AppUpdate(app, dash, views, store, KeyMsg(k))} :
               /\ operator.left > 0
               /\ HasEffect(p)
               /\ operator' = [operator EXCEPT !.left = @ - 1]
               /\ Commit(p, KeyMsg(k), inflight)

\* the terminal reports its size
Resize == \E h \in Heights :
              \E p \in {AppUpdate(app, dash, views, store, WindowSizeMsg(h))} :
                  /\ HasEffect(p)
                  /\ Commit(p, WindowSizeMsg(h), inflight)
                  /\ UNCHANGED operator

\* a command finishes and its message reaches the event loop
Deliver == \E c \in BagToSet(inflight) : \E msg \in Results(c, operator.installed) :
               \E p \in {AppUpdate(app, dash, views, store, msg)} :
                   /\ Commit(p, msg, inflight (-) SetToBag({c}))
                   /\ UNCHANGED operator

Next == Key \/ Resize \/ Deliver

Spec == Init /\ [][Next]_vars


(***************************************************************************)
(* A session at the search box: start-up is over and Tab has moved the     *)
(* focus to the Search panel, whose text entry is active                   *)
(***************************************************************************)
AtSearchBox(h, pkgs, names, deps) == After(Started(h, pkgs, names, deps), << KeyMsg("tab") >>)

SearchInit ==
    /\ operator = [keys |-> {"g", "enter", "esc", "tab"}, left |-> MaxKeys, fresh |-> FALSE,
                   installed |-> InstalledLists]
    /\ \E p \in {AtSearchBox(h, l, o, n) : h \in Heights, l \in InstalledLists,
                                           o \in OutdatedLists, n \in DepCounts} :
          /\ app = p.m
          /\ store = p.st
          /\ dash = p.dash
          /\ views = p.views
          /\ inflight = EmptyBag
    /\ disk = NoFile
    /\ stream = NoStream
    /\ last = [msg |-> KeyMsg("tab"), cmds |-> <<>>, confirmed |-> {},
               loadFor |-> dash.selectedPkg.Name, searchFor |-> <<>>]

SearchNext == Key \/ Deliver

SpecSearch == SearchInit /\ [][SearchNext]_vars


(***************************************************************************)
(* A session that ends with the quit key: New has loaded the favorites of  *)
(* the file, start-up is over                                              *)
(***************************************************************************)
QuitInit ==
    /\ operator = [keys |-> {"d", "enter", "esc", "q"}, left |-> MaxKeys, fresh |-> FALSE,
                   installed |-> InstalledLists]
    /\ disk \in FavoritesFiles
    /\ stream = NoStream
    /\ \E p \in {Started(h, l, o, n) : h \in Heights, l \in InstalledLists,
                                       o \in OutdatedLists, n \in DepCounts} :
          /\ app = p.m
          /\ store = [p.st EXCEPT !.Favorites = LoadFavorites(disk)]
          /\ dash = p.dash
          /\ views = p.views
          /\ inflight = EmptyBag
    /\ last = [msg |-> Msg("none"), cmds |-> <<>>, confirmed |-> {},
               loadFor |-> dash.selectedPkg.Name, searchFor |-> <<>>]

QuitNext == Key \/ Deliver

SpecQuit == QuitInit /\ [][QuitNext]_vars


(***************************************************************************)
(* addLog on its own: a dashboard whose log only grows, one numbered line  *)
(* per step                                                                *)
(***************************************************************************)
LogInit ==
    /\ app = NewModel
    /\ store = NewState
    /\ dash = NewDashboardView
    /\ views = NewViews
    /\ inflight = EmptyBag
    /\ disk = NoFile
    /\ stream = NoStream
    /\ operator = [keys |-> {}, left |-> MaxAppends, fresh |-> TRUE, installed |-> {}]
    /\ last = [msg |-> Msg("none"), cmds |-> <<>>, confirmed |-> {}, loadFor |-> "",
               searchFor |-> <<>>]

\* the number of lines appended so far
Appended == MaxAppends - operator.left

AppendLog ==
    /\ operator.left > 0
    /\ dash' = addLog(dash, LogEntry("", <<>>, Appended + 1))
    /\ operator' = [operator EXCEPT !.left = @ - 1]
    /\ UNCHANGED <<app, store, views, inflight, disk, stream, last>>

SpecLog == LogInit /\ [][AppendLog]_vars

(***************************************************************************)
(* executeStream on its own: the goroutine and a consumer of its channels  *)
(***************************************************************************)
StreamInit ==
    /\ app = NewModel
    /\ store = NewState
    /\ dash = NewDashboardView
    /\ views = NewViews
    /\ inflight = EmptyBag
    /\ disk = NoFile
    /\ operator = [keys |-> {}, left |-> 0, fresh |-> TRUE, installed |-> {}]
    /\ last = [msg |-> Msg("none"), cmds |-> <<>>, confirmed |-> {}, loadFor |-> "",
               searchFor |-> <<>>]
    /\ stream = NewStream

Program == <<app, store, dash, views, inflight, operator, disk, last>>

\* cmd.StdoutPipe()
StdoutPipe ==
    /\ stream.g = "pipe"
    /\ \E ok \in BOOLEAN :
          stream' = IF ok THEN [stream EXCEPT !.g = "start"]
                    ELSE Fail(stream, "failed to create stdout pipe")
    /\ UNCHANGED Program

\* cmd.Start()
Start ==
    /\ stream.g = "start"
    /\ \E ok \in BOOLEAN :
          stream' = IF ok THEN [stream EXCEPT !.g = "read"]
                    ELSE Fail(stream, "failed to start command")
    /\ UNCHANGED Program

\* stdout.Read(buf): n > 0 bytes (data # ""), an error, or both
Read ==
    /\ stream.g = "read"
    /\ \E data \in Chunks \cup {""}, failed \in BOOLEAN :
          /\ data # "" \/ failed
          /\ data # "" => stream.reads < MaxChunks
          /\ stream' = IF data # ""
                       THEN [stream EXCEPT !.g = "sendOut", !.buf = data, !.eof = failed,
                                           !.reads = @ + 1]
                       ELSE [stream EXCEPT !.g = "wait"]
    /\ UNCHANGED Program

\* outputChan <- string(buf[:n]) meets the consumer's receive: the channel is
\* unbuffered
SendOutput ==
    /\ stream.g = "sendOut" /\ stream.c = "output" /\ ~stream.outputClosed
    /\ stream' = [stream EXCEPT !.got = Append(@, stream.buf),
                                !.g = IF stream.eof THEN "wait" ELSE "read"]
    /\ UNCHANGED Program

\* cmd.Wait()
Wait ==
    /\ stream.g = "wait"
    /\ \E ok \in BOOLEAN :
          stream' = IF ok THEN [stream EXCEPT !.g = "return"]
                    ELSE Fail(stream, "command failed")
    /\ UNCHANGED Program

\* errorChan <- err: proceeds only if the buffer has room
SendError ==
    /\ stream.g = "sendErr" /\ Len(stream.errorChan) < ErrorCap
    /\ stream' = [stream EXCEPT !.errorChan = Append(@, stream.err), !.sent = @ + 1,
                                !.g = "return"]
    /\ UNCHANGED Program

\* the goroutine returns: the next deferred close runs
Close ==
    /\ stream.g = "return"
    /\ LET s == IF Head(stream.deferred) = "errorChan"
                THEN [stream EXCEPT !.errorClosed = TRUE]
                ELSE [stream EXCEPT !.outputClosed = TRUE]
       IN stream' = [s EXCEPT !.deferred = Tail(@),
                              !.g = IF Tail(stream.deferred) = <<>> THEN "done" ELSE "return"]
    /\ UNCHANGED Program

\* the consumer's receive from the output channel finds it closed
ObserveClosed ==
    /\ stream.c = "output" /\ stream.outputClosed
    /\ stream' = [stream EXCEPT !.c = "error"]
    /\ UNCHANGED Program

\* the consumer's receive from the error channel: a buffered error, or the zero
\* value of a closed and drained channel; it blocks otherwise
ReceiveError ==
    /\ stream.c = "error"
    /\ stream.errorChan # <<>> \/ stream.errorClosed
    /\ stream' = IF stream.errorChan # <<>>
                 THEN [stream EXCEPT !.gotErr = Head(stream.errorChan),
                                     !.errorChan = Tail(@), !.c = "done"]
                 ELSE [stream EXCEPT !.gotErr = "nil", !.c = "done"]
    /\ UNCHANGED Program

StreamNext ==
    \/ StdoutPipe \/ Start \/ Read \/ SendOutput \/ Wait \/ SendError \/ Close
    \/ ObserveClosed \/ ReceiveError

\* the Go scheduler runs a goroutine that can proceed, and the consumer keeps
\* receiving
SpecStream == StreamInit /\ [][StreamNext]_vars /\ WF_vars(StreamNext)


(***************************************************************************)
(* Properties                                                              *)
(***************************************************************************)
\* the question of the prompt the dashboard shows before op
QuestionOf(op) ==
    CASE op = "Install" -> "Install"
      [] op = "Uninstall" -> "Uninstall"
      [] op = "Upgrade" -> "Upgrade"
      [] op = "UpgradeAll" -> "Upgrade all outdated"
      [] op = "Doctor" -> "Run brew doctor"
      [] op = "Cleanup" -> "Run brew cleanup"
      [] OTHER -> "Run brew autoremove"

\* the value of pendingAction the dashboard sets with that question
TagOf(question) ==
    CASE question = "Install" -> "install"
      [] question = "Uninstall" -> "uninstall"
      [] question = "Upgrade" -> "upgrade"
      [] question = "Upgrade all outdated" -> "upgradeAll"
      [] question = "Run brew doctor" -> "doctor"
      [] question = "Run brew cleanup" -> "cleanup"
      [] OTHER -> "autoremove"

\* the calls to mutating client operations the last step issued
MutatingCalls(cmds) ==
    {cmds[i] : i \in {j \in DOMAIN cmds : cmds[j].kind = "call" /\ cmds[j].op \in MutatingOps}}

\* the step just taken handled msg of this type while the dashboard was the
\* current view and its dialog was hidden, so the message reached the
\* dashboard's own cases
DashboardHandles(type) ==
    /\ last'.msg.type = type
    /\ app.currentView = ViewHome
    /\ ~dash.dialog.visible

\* C1: every call to a mutating client operation (Install, Uninstall, Upgrade,
\* UpgradeAll, Doctor, Cleanup, Autoremove), from any view, is issued only
\* after a dialog resolution with confirmed = true for that action's prompt
\* has been handled (at the latest by the step that issues the call).
C1_NoCallWithoutConfirmation ==
    \A c \in MutatingCalls(last.cmds) : QuestionOf(c.op) \in last.confirmed

\* C2: when a confirmed resolution is handled, every action dispatched is the
\* one whose prompt the resolved dialog showed, whatever was handled between
\* the dialog's Enter keystroke and the delivery of its resolution.
C2_DispatchesResolvedAction ==
    (last.msg.type = "DialogMsg" /\ last.msg.ok)
        => \A c \in MutatingCalls(last.cmds) : QuestionOf(c.op) = last.msg.prompt.question

\* C3: for Install, Uninstall and Upgrade of one package, the name passed to
\* the client equals the name in the prompt of the dialog that was confirmed.
C3_CallNamesPromptedPackage ==
    (last.msg.type = "DialogMsg" /\ last.msg.ok)
        => \A c \in MutatingCalls(last.cmds) :
               (c.op \in {"Install", "Uninstall", "Upgrade"}
                    /\ QuestionOf(c.op) = last.msg.prompt.question)
                   => c.name = last.msg.prompt.name

\* C4: after the dashboard has handled a dialog resolution, confirmed or
\* cancelled, pendingAction is empty.
C4_PendingActionCleared ==
    [][DashboardHandles("DialogMsg") => dash'.pendingAction = ""]_vars

\* C5: while the dashboard's dialog is visible no step changes pendingAction or
\* the prompt text, so no second confirmable action is requested before the
\* dialog resolves.
C5_VisibleDialogKeepsRequest ==
    [][dash.dialog.visible
          => /\ dash'.pendingAction = dash.pendingAction
             /\ dash'.dialog.message = dash.dialog.message]_vars

\* C5 witness: a key reached the dashboard while its dialog was up (Tab moved
\* the dialog's button instead of the panel focus) and the request is intact.
C5_Witness ==
    /\ last.msg.type = "KeyMsg" /\ last.msg.key = "tab"
    /\ dash.dialog.visible /\ dash.dialog.selectedBtn = 1
    /\ dash.pendingAction = "doctor" /\ dash.focusedPanel = PanelInstalled

\* C6: while the dashboard shows its dialog, a keystroke is answered by the
\* dialog alone: it changes nothing but the dialog, and starts nothing but the
\* dialog's resolution (no quit, no navigation).
C6_VisibleDialogTakesAllKeys ==
    [][(dash.dialog.visible /\ app.currentView = ViewHome /\ last'.msg.type = "KeyMsg")
          => /\ app' = app /\ store' = store /\ views' = views
             /\ dash' = [dash EXCEPT !.dialog = dash'.dialog]
             /\ \A i \in DOMAIN last'.cmds :
                    last'.cmds[i].kind = "msg" /\ last'.cmds[i].msg.type = "DialogMsg"]_vars

\* C7: the keystroke that opens the dialog (the request phase of an action)
\* sets pendingAction to the action's tag, sets the prompt and shows the
\* dialog; it starts no command and leaves the status, the log and everything
\* else as they were.
C7_RequestOnlyAsks ==
    [][(DashboardHandles("KeyMsg") /\ dash'.dialog.visible)
          => /\ last'.cmds = <<>>
             /\ dash'.pendingAction = TagOf(dash'.dialog.message.question)
             /\ dash'.dialog.selectedBtn = 0
             /\ dash' = [dash EXCEPT !.pendingAction = dash'.pendingAction,
                                     !.dialog = dash'.dialog]
             /\ app' = app /\ store' = store /\ views' = views]_vars

\* C7 witness: "x" on an installed package has just asked for confirmation
\* while an earlier operation's status was not in progress.
C7_Witness ==
    /\ last.msg.type = "KeyMsg" /\ last.msg.key = "x"
    /\ dash.dialog.visible /\ dash.pendingAction = "uninstall"
    /\ dash.dialog.message = Prompt("Uninstall", "a", 0)
    /\ ~dash.operationInProgress /\ Len(dash.logs) > 0

\* C8: a visible dialog that receives Enter or Esc hides and emits exactly one
\* resolution, confirmed exactly when the key was Enter with Confirm selected
\* (Esc never confirms); a hidden dialog emits no resolution for any message.
C8_DialogResolvesOnce ==
    [][/\ (/\ dash.dialog.visible /\ app.currentView = ViewHome
           /\ last'.msg.type = "KeyMsg" /\ last'.msg.key \in {"enter", "esc"}
           /\ ~GlobalKey(app, last'.msg))
          => /\ ~dash'.dialog.visible
             /\ last'.cmds = << Send(DialogMsg(last'.msg.key = "enter" /\ dash.dialog.selectedBtn = 0,
                                               dash.dialog.message)) >>
       /\ ~dash.dialog.visible
          => \A i \in DOMAIN last'.cmds : last'.cmds[i].msg.type # "DialogMsg"]_vars

\* C8 witness: Enter was pressed with Cancel selected and the one resolution
\* emitted is not confirmed.
C8_Witness ==
    /\ last.msg.type = "KeyMsg" /\ last.msg.key = "enter"
    /\ ~dash.dialog.visible
    /\ Len(last.cmds) = 1 /\ last.cmds[1].msg.type = "DialogMsg" /\ ~last.cmds[1].msg.ok
    /\ dash.dialog.selectedBtn = 1

\* C9: when the delayed trigger of the last selection change fires (its token
\* is the current one), exactly one detail load is issued, for that package.
C9_LastSelectionLoads ==
    [][(last'.msg.type = "DebouncedLoadMsg" /\ last'.msg.id = dash.debounceID)
          => last'.cmds = << Call("Info", last'.msg.pkg.Name, "dashboard") >>]_vars

\* C10: a delayed trigger whose token is not the current debounce token is
\* discarded: no detail load is issued and nothing in the program changes.
C10_StaleTriggerDiscarded ==
    [][(last'.msg.type = "DebouncedLoadMsg" /\ last'.msg.id # dash.debounceID)
          => /\ last'.cmds = <<>>
             /\ dash' = dash /\ app' = app /\ store' = store /\ views' = views]_vars

\* C10 witness: the dashboard, dialog hidden, has just handled the trigger of
\* a selection change that a later one superseded.
C10_Witness ==
    /\ last.msg.type = "DebouncedLoadMsg" /\ last.msg.id < dash.debounceID
    /\ last.msg.pkg # dash.selectedPkg
    /\ app.currentView = ViewHome /\ ~dash.dialog.visible
    /\ last.cmds = <<>>

\* C11: once every detail load the dashboard issued has completed, and the
\* last of them was applied, the displayed detail is that of the most recently
\* issued request (completions that arrive out of order do not win).
C11_LatestLoadWins ==
    (/\ last.msg.type = "PackageInfoLoadedMsg" /\ dash.packageInfo = last.msg.info
     /\ app.currentView = ViewHome /\ ~dash.dialog.visible
     /\ \A c \in BagToSet(inflight) : ~(c.kind = "call" /\ c.op = "Info" /\ c.from = "dashboard"))
        => dash.packageInfo.Name = last.loadFor

\* C12: every change of the selected package bumps the debounce token, so a
\* delayed trigger that issues a detail load always carries the package that
\* is selected when it fires.
C12_TriggerLoadsSelection ==
    [][(last'.msg.type = "DebouncedLoadMsg" /\ last'.cmds # <<>>)
          => /\ last'.msg.pkg = dash.selectedPkg
             /\ last'.cmds = << Call("Info", dash.selectedPkg.Name, "dashboard") >>]_vars

\* C13: after any number of appends the log holds at most 1000 lines, and they
\* are the most recently appended ones in append order (after the 1001st
\* append line 1 is gone and line 2 is the oldest).
C13_LogKeepsLatest ==
    /\ Len(dash.logs) = (IF Appended > LogCap THEN LogCap ELSE Appended)
    /\ \A i \in DOMAIN dash.logs : dash.logs[i].n = Appended - Len(dash.logs) + i

\* C13 witness: 1001 lines were appended, 1000 are held and the oldest is line 2.
C13_Witness ==
    /\ Appended = LogCap + 1
    /\ Len(dash.logs) = LogCap
    /\ dash.logs[1].n = 2 /\ dash.logs[LogCap].n = LogCap + 1


\* C14: in every reachable state the selection index of the Installed panel
\* and of the Search panel is within the panel's item sequence whenever that
\* sequence is not empty, also after a list refresh that arrives while a
\* dialog is visible or another view is current.
C14_IndexInRange ==
    /\ Len(GetFilteredPackages(store)) > 0 =>
           (0 <= dash.installedIndex /\ dash.installedIndex < Len(GetFilteredPackages(store)))
    /\ Len(dash.searchResults) > 0 =>
           (0 <= dash.searchIndex /\ dash.searchIndex < Len(dash.searchResults))

\* C15: in every reachable state in which the window height is known, the
\* selection of the Installed panel and of the Search panel lies inside the
\* scrolled window, scrollOffset <= index < scrollOffset + visibleLines, also
\* after a resize and after navigation re-initialised the dashboard.
C15_SelectionInWindow ==
    app.ready =>
        /\ Len(GetFilteredPackages(store)) > 0 =>
               /\ dash.installedScroll <= dash.installedIndex
               /\ dash.installedIndex < dash.installedScroll + getInstalledVisibleLines(dash)
        /\ Len(dash.searchResults) > 0 =>
               /\ dash.searchScroll <= dash.searchIndex
               /\ dash.searchIndex < dash.searchScroll + getSearchVisibleLines(dash)

\* what pressing the upgrade-all binding does in the current state
PressUpgradeAll == AppUpdate(app, dash, views, store, KeyMsg("U"))
IsCall(c) == c.kind = "call"
NothingAsked(p) ==
    /\ p.dash.dialog.visible => dash.dialog.visible
    /\ p.dash.pendingAction = dash.pendingAction
    /\ \A i \in DOMAIN p.cmds : ~IsCall(p.cmds[i])

ReportedOutdated(name) ==
    \E j \in DOMAIN store.OutdatedPackages : store.OutdatedPackages[j] = name
\* what pressing the upgrade-one binding does in the current state
PressUpgradeOne == AppUpdate(app, dash, views, store, KeyMsg("u"))

\* C17: with an outdated installed package P selected in the Installed panel,
\* pressing the upgrade-one binding shows the prompt "Upgrade P?" (whose
\* confirmation then dispatches the one Upgrade call for [P], followed on
\* success by the two refreshes and the log entries).
C17_UpgradeOnePrompts ==
    (/\ app.currentView = ViewHome /\ ~app.quit /\ ~dash.dialog.visible
     /\ dash.focusedPanel = PanelInstalled /\ dash.selectedPkg # nilPkg
     /\ ReportedOutdated(dash.selectedPkg.Name))
        => \A p \in {PressUpgradeOne} :
               /\ p.dash.dialog.visible
               /\ p.dash.dialog.message = Prompt("Upgrade", dash.selectedPkg.Name, 0)
               /\ p.dash.pendingAction = "upgrade"

\* C18: once the outdated list has been loaded, every installed package it
\* names is marked outdated in the Installed panel (which is what makes the
\* upgrade-one dialog reachable with 'u').
C18_LoadedOutdatedIsMarked ==
    last.msg.type = "app.OutdatedLoadedMsg" =>
        \A i \in DOMAIN store.InstalledPackages :
            ReportedOutdated(store.InstalledPackages[i].Name)
                => store.InstalledPackages[i].Outdated

\* the status is InProgress for the dashboard's call c, which is still running
InProgressFor(c) ==
    /\ c.kind = "call" /\ c.from = "dashboard"
    /\ dash.operationInProgress /\ dash.operationMessage = <<c.op, c.name>>

\* C19: whenever the operation status is InProgress because of a dispatched
\* operation, the arrival of that operation's completion (success, failure or
\* diagnostics report) returns it to Idle, whether a dialog is visible or not
\* and whichever view is current.
C19_CompletionReturnsToIdle ==
    [][(\E c \in BagToSet(inflight) :
            /\ InProgressFor(c)
            /\ last'.msg \in Results(c, operator.installed)
            /\ CopiesIn(c, inflight') < CopiesIn(c, inflight))
          => ~dash'.operationInProgress]_vars

\* a call of one of the confirmed actions, dispatched by the dashboard
IsOperation(c) == c.kind = "call" /\ c.from = "dashboard" /\ c.op \in MutatingOps

\* C20: while the operation status is InProgress for an action whose call has
\* not completed, no step dispatches a second call of the same action class.
C20_NoDuplicateOperation ==
    [][\A i \in DOMAIN last'.cmds :
           IsOperation(last'.cmds[i]) =>
               ~(/\ dash.operationInProgress
                 /\ \E b \in BagToSet(inflight) :
                        IsOperation(b) /\ b.op = last'.cmds[i].op)]_vars

\* the step handles a completion of the running command c
Completes(c) ==
    /\ last'.msg \in Results(c, operator.installed)
    /\ CopiesIn(c, inflight') < CopiesIn(c, inflight)
\* the actions that change the installed packages
ChangingOps == MutatingOps \ {"Doctor"}

\* C21: whenever a mutating action (install, uninstall, upgrade one, upgrade
\* all, cleanup, autoremove) completes successfully, the step that handles the
\* completion requests the refresh of the installed and outdated lists, in
\* whatever state the completion arrives.
C21_SuccessRefreshes ==
    [][(\E c \in BagToSet(inflight) :
            /\ IsOperation(c) /\ c.op \in ChangingOps
            /\ Completes(c) /\ last'.msg.type = "SuccessMsgView")
          => \E i \in DOMAIN last'.cmds : last'.cmds[i] = Send(RefreshPackagesMsg)]_vars

\* the messages that report the failure of a call
Failures == {"ErrorMsgView", "app.ErrorMsg"}

\* C22: the step that handles a failure completion leaves the installed list,
\* the search results, the displayed detail and both selections as they were
\* and returns no command: no refresh is scheduled and the call is not retried.
C22_FailureKeepsDisplay ==
    [][last'.msg.type \in Failures
          => /\ store'.InstalledPackages = store.InstalledPackages
             /\ dash'.searchResults = dash.searchResults
             /\ dash'.packageInfo = dash.packageInfo
             /\ dash'.installedIndex = dash.installedIndex
             /\ dash'.searchIndex = dash.searchIndex
             /\ dash'.selectedPkg = dash.selectedPkg
             /\ last'.cmds = <<>>]_vars
\* the dashboard handled the failure of a call while it showed a list, a
\* selection and a detail
C22_Witness ==
    /\ last.msg.type = "ErrorMsgView" /\ app.currentView = ViewHome
    /\ ~dash.dialog.visible /\ ~dash.operationInProgress
    /\ Len(dash.logs) > 0 /\ dash.logs[Len(dash.logs)].prefix = "Error:"
    /\ store.InstalledPackages # <<>> /\ dash.selectedPkg # nilPkg
    /\ dash.packageInfo # nilInfo /\ dash.installedIndex = 1

\* C23: a failed refresh never blanks existing data: the step that handles the
\* failure of the listing of installed packages or of outdated packages leaves
\* the installed list, the outdated list and their counts in the store as they
\* were.
C23_FailedRefreshKeepsLists ==
    [][(last'.msg.type = "app.ErrorMsg" \/ last'.msg = OutdatedFailed)
          => /\ store'.InstalledPackages = store.InstalledPackages
             /\ store'.TotalInstalled = store.TotalInstalled
             /\ store'.OutdatedPackages = store.OutdatedPackages
             /\ store'.TotalOutdated = store.TotalOutdated]_vars

\* C23 amended: the step that handles the failure of the listing of installed
\* packages leaves the installed list, the outdated list and their counts in
\* the store as they were.
C23_FailedInstalledListingKeepsLists ==
    [][last'.msg.type = "app.ErrorMsg"
          => /\ store'.InstalledPackages = store.InstalledPackages
             /\ store'.TotalInstalled = store.TotalInstalled
             /\ store'.OutdatedPackages = store.OutdatedPackages
             /\ store'.TotalOutdated = store.TotalOutdated]_vars
\* a refresh's listing of installed packages failed while the store held a list
C23_Witness ==
    /\ last.msg = AppErrorMsg(BrewError("list")) /\ store.ErrorMsg = BrewError("list")
    /\ store.InstalledPackages # <<>> /\ store.TotalInstalled = Len(store.InstalledPackages)
    /\ operator.left < MaxKeys

\* C24: every failure of an external command, the failure of an installed-list
\* load or refresh included, is surfaced as exactly one log entry with the
\* error prefix: the step that handles the failure on the dashboard, with no
\* dialog in the way, appends that one entry.
C24_FailureIsLogged ==
    [][(last'.msg.type \in Failures /\ app.currentView = ViewHome /\ ~dash.dialog.visible)
          => /\ Len(dash'.logs) = Len(dash.logs) + 1
             /\ dash'.logs[Len(dash'.logs)].prefix = "Error:"
             /\ SubSeq(dash'.logs, 1, Len(dash.logs)) = dash.logs]_vars

\* the focus cycle of the dashboard
NextPanel(panel) ==
    CASE panel = PanelInstalled -> PanelSearch
      [] panel = PanelSearch -> PanelDependencies
      [] OTHER -> PanelInstalled

\* C25: on the dashboard with no dialog visible, Tab moves the focus
\* Installed -> Search -> Dependencies -> Installed, whether or not text entry
\* is active in the Search panel (so three Tabs return to the starting panel),
\* and text entry is active only while the Search panel has the focus.
C25_TabCyclesFocus ==
    [][/\ (last'.msg = KeyMsg("tab") /\ app.currentView = ViewHome /\ ~dash.dialog.visible)
            => dash'.focusedPanel = NextPanel(dash.focusedPanel)
       /\ dash'.focusedPanel \in {PanelInstalled, PanelSearch, PanelDependencies}
       /\ dash'.searchFocused => dash'.focusedPanel = PanelSearch]_vars
\* the third Tab in a row brought the focus back to the Installed panel,
\* the second one having left the Search panel's text entry
C25_Witness ==
    /\ last.msg = KeyMsg("tab") /\ app.currentView = ViewHome /\ ~dash.dialog.visible
    /\ operator.left = MaxKeys - 3 /\ dash.focusedPanel = PanelInstalled
    /\ ~dash.searchFocused

\* the keys that type a character
CharacterKeys == Keys \ {"up", "down", "tab", "enter", "esc"}

\* C26: while the Search panel's text entry is active, a character key is
\* appended to the query buffer and does nothing else: the step returns no
\* command (no navigation, no view change, no quit) and shows no dialog.
C26_TextEntryTakesCharacters ==
    [][(/\ last'.msg.type = "KeyMsg" /\ last'.msg.key \in CharacterKeys
        /\ app.currentView = ViewHome /\ ~dash.dialog.visible /\ dash.searchFocused)
          => /\ dash'.searchValue = Append(dash.searchValue, last'.msg.key)
             /\ last'.cmds = <<>>
             /\ ~dash'.dialog.visible /\ dash'.searchFocused
             /\ app' = app]_vars

\* what typing the character k does in the current state
Typing(k) == AppUpdate(app, dash, views, store, KeyMsg(k))

\* C27: in the Search panel with text entry not active (after Esc or after
\* results arrived), typing a character re-enters text entry and the character
\* goes to the query buffer.
C27_TypingReentersTextEntry ==
    (/\ app.currentView = ViewHome /\ ~app.quit /\ ~dash.dialog.visible
     /\ dash.focusedPanel = PanelSearch /\ ~dash.searchFocused)
        => \A k \in RuneKeys : \A p \in {Typing(k)} :
               /\ p.dash.searchFocused
               /\ p.dash.searchValue = Append(dash.searchValue, k)

\* what pressing the arrow key k does in the current state
Arrow(k) == AppUpdate(app, dash, views, store, KeyMsg(k))
\* the package at the row the arrow key moved to
PackageAtRow(d) ==
    IF d.focusedPanel = PanelInstalled
    THEN GetFilteredPackages(store)[d.installedIndex + 1]
    ELSE d.searchResults[d.searchIndex + 1]

\* C28: on the dashboard with no dialog visible, an up/down input that changes
\* the selected row of the Installed or Search panel bumps the debounce token
\* and schedules exactly one debounced detail load, for the package at the new
\* row; an up/down input that does not change the row (a list boundary) leaves
\* the token as it is and schedules nothing.
C28_RowChangeSchedulesOneLoad ==
    (app.currentView = ViewHome /\ ~app.quit /\ ~dash.dialog.visible)
        => \A k \in {"up", "down"} : \A p \in {Arrow(k)} :
               IF \/ p.dash.installedIndex # dash.installedIndex
                  \/ p.dash.searchIndex # dash.searchIndex
               THEN /\ p.dash.debounceID = dash.debounceID + 1
                    /\ p.cmds = << Send(DebouncedLoadMsg(PackageAtRow(p.dash), p.dash.debounceID)) >>
                    /\ p.dash.selectedPkg = PackageAtRow(p.dash)
               ELSE /\ p.dash.debounceID = dash.debounceID
                    /\ p.cmds = <<>>
\* Down moved the selection to the last row and scheduled its load; a further
\* Down is at the boundary
C28_Witness ==
    /\ app.currentView = ViewHome /\ ~dash.dialog.visible
    /\ last.msg = KeyMsg("down") /\ dash.focusedPanel = PanelInstalled
    /\ dash.installedIndex = Len(GetFilteredPackages(store)) - 1 /\ dash.installedIndex > 0
    /\ last.cmds = << Send(DebouncedLoadMsg(dash.selectedPkg, dash.debounceID)) >>
    /\ \A p \in {Arrow("down")} : p.dash = dash /\ p.cmds = <<>>

\* the log entries of the lines of a report, one per line, in the report's order
RECURSIVE LineEntries(_)
LineEntries(lines) ==
    IF lines = <<>> THEN <<>>
    ELSE << LogEntry("", <<Head(lines)>>, 0) >> \o LineEntries(Tail(lines))
NonBlank(line) == line # ""
DoctorCompleted == LogEntry("OK", <<"Doctor completed">>, 0)
\* the dashboard handles a diagnostics completion
DoctorReportHandled ==
    /\ last'.msg.type = "DoctorOutputMsg"
    /\ app.currentView = ViewHome /\ ~dash.dialog.visible

\* C29 as stated: on a diagnostics completion every line of the report is
\* appended to the log as an entry of its own, in the report's order (and the
\* completion entry follows).
C29_EveryLineLogged ==
    [][DoctorReportHandled
          => dash'.logs = dash.logs \o LineEntries(last'.msg.text) \o << DoctorCompleted >>]_vars

\* C29 amended: on a diagnostics completion every line of the report that is
\* not blank is appended to the log as an entry of its own, in the report's
\* order, and the completion entry follows.
C29_NonBlankLinesLogged ==
    [][DoctorReportHandled
          => dash'.logs = dash.logs \o LineEntries(SelectSeq(last'.msg.text, NonBlank))
                              \o << DoctorCompleted >>]_vars
\* the dashboard logged a report of two lines with an empty line between them
C29_Witness ==
    /\ last.msg.type = "DoctorOutputMsg" /\ last.msg.text = <<"warn", "", "hint">>
    /\ app.currentView = ViewHome /\ ~dash.dialog.visible
    /\ Len(dash.logs) >= 3
    /\ SubSeq(dash.logs, Len(dash.logs) - 2, Len(dash.logs))
           = LineEntries(<<"warn", "hint">>) \o << DoctorCompleted >>

\* the step sets the status to InProgress with c's message and appends the one
\* started entry of c to the log
StartsVisibly(c) ==
    /\ dash'.operationInProgress /\ dash'.operationMessage = <<c.op, c.name>>
    /\ dash'.logs = Append(dash.logs, LogEntry("->", <<c.op, c.name>>, 0))

\* C30 as stated: a step in which the dashboard issues any call into the
\* Package Manager Client sets the operation status to InProgress with a
\* message and appends exactly one started entry to the log.
C30_EveryCallStartsVisibly ==
    [][\A i \in DOMAIN last'.cmds :
           (IsCall(last'.cmds[i]) /\ last'.cmds[i].from = "dashboard")
               => StartsVisibly(last'.cmds[i])]_vars

\* C30 amended: a step in which the dashboard issues the call of a confirmed
\* action (install, uninstall, upgrade one, upgrade all, diagnostics, cleanup,
\* autoremove) sets the operation status to InProgress with its message and
\* appends exactly one started entry to the log.
C30_OperationStartsVisibly ==
    [][\A i \in DOMAIN last'.cmds :
           IsOperation(last'.cmds[i]) => StartsVisibly(last'.cmds[i])]_vars
\* the confirmed uninstall of a was dispatched and its started entry is the
\* last line of the log
C30_Witness ==
    /\ last.msg.type = "DialogMsg" /\ last.msg.ok
    /\ last.cmds = << Call("Uninstall", "a", "dashboard") >>
    /\ dash.operationInProgress /\ dash.operationMessage = <<"Uninstall", "a">>
    /\ dash.logs[Len(dash.logs)] = LogEntry("->", <<"Uninstall", "a">>, 0)

\* a search of the dashboard is still running
SearchOutstanding ==
    \E c \in BagToSet(inflight) : c.kind = "call" /\ c.op = "Search" /\ c.from = "dashboard"

\* C31: once all outstanding searches have completed, the displayed search
\* results are those of the most recently submitted query, whatever the order
\* in which the completions arrived.
C31_NewestSearchWins ==
    (/\ last.msg.type = "SearchResultsMsg" /\ dash.searchResults = last.msg.pkgs
     /\ app.currentView = ViewHome /\ ~dash.dialog.visible
     /\ ~SearchOutstanding)
        => \E l \in SearchLists : dash.searchResults = Found(l, last.searchFor)

\* the step issues the quit command
QuitIssued == \E i \in DOMAIN last'.cmds : last'.cmds[i] = Send(QuitMsg)

TriggersIn(bag) == {c \in BagToSet(bag) : c.kind = "msg" /\ c.msg.type = "DebouncedLoadMsg"}

\* C33: the debounce token never decreases and is never reset, also when
\* navigation re-initialises the dashboard; every delayed trigger in flight
\* carries a token at most the current one, and at most one trigger in flight
\* carries the current token.
C33_TokenOnlyGrows ==
    [][/\ dash'.debounceID >= dash.debounceID
       /\ \A c \in TriggersIn(inflight') :
              /\ c.msg.id <= dash'.debounceID
              /\ c.msg.id = dash'.debounceID => CopiesIn(c, inflight') = 1
       /\ \A c, d \in TriggersIn(inflight') :
              (c.msg.id = dash'.debounceID /\ d.msg.id = dash'.debounceID) => c = d]_vars
\* navigation re-initialised the dashboard while the triggers of two
\* selection changes were in flight, the newer one carrying the current token
C33_Witness ==
    /\ last.msg.type = "NavigateMsg" /\ last.msg.view = ViewHome
    /\ dash.debounceID = 2
    /\ \E c, d \in TriggersIn(inflight) : c.msg.id = 2 /\ d.msg.id = 1

\* the log entry that reports n outdated packages
OutdatedReport(n) ==
    IF n > 0 THEN LogEntry("!", <<"Found outdated packages">>, n)
    ELSE LogEntry("OK", <<"All packages are up to date">>, 0)

\* C34: when the dashboard handles the completion of an outdated-list load,
\* the number of outdated packages it reports in the log is the number of
\* packages in the loaded list, the count the upgrade-all binding uses.
C34_LogReportsOutdatedCount ==
    [][(/\ last'.msg.type = "app.OutdatedLoadedMsg"
        /\ app.currentView = ViewHome /\ ~dash.dialog.visible)
          => /\ dash'.logs[Len(dash'.logs)] = OutdatedReport(Len(last'.msg.names))
             /\ Len(last'.msg.names) = GetOutdatedCount(store')]_vars

\* the row highlighted in the focused panel, nilPkg if there is none
HighlightedRow ==
    CASE dash.focusedPanel = PanelInstalled ->
            IF dash.installedIndex >= 0 /\ dash.installedIndex < Len(GetFilteredPackages(store))
            THEN GetFilteredPackages(store)[dash.installedIndex + 1] ELSE nilPkg
      [] dash.focusedPanel = PanelSearch ->
            IF dash.searchIndex >= 0 /\ dash.searchIndex < Len(dash.searchResults)
            THEN dash.searchResults[dash.searchIndex + 1] ELSE nilPkg
      [] OTHER -> nilPkg
\* what pressing the action key k does in the current state
ActionKey(k) == AppUpdate(app, dash, views, store, KeyMsg(k))
\* the dashboard accepted the key: it asks for confirmation
Accepted(p) == p.dash.dialog.visible /\ ~dash.dialog.visible

\* C35: whenever an action key is accepted in a panel (x or u in Installed,
\* Enter in Search), the package the action is requested for is the row
\* highlighted in that panel.
C35_ActionIsForHighlightedRow ==
    (app.currentView = ViewHome /\ ~app.quit)
        => \A k \in {"x", "u", "enter"} : \A p \in {ActionKey(k)} :
               Accepted(p) => /\ HighlightedRow # nilPkg
                              /\ p.dash.dialog.message.name = HighlightedRow.Name

\* the dialog was hidden and this step shows it
DialogShown == ~dash.dialog.visible /\ dash'.dialog.visible

\* C36: every time the confirmation dialog is shown its selected option is
\* Confirm, so that Enter pressed immediately afterwards resolves the dialog as
\* confirmed; the selected option index always stays within the range of the
\* dialog's options.
C36_ShownDialogOffersConfirm ==
    [][/\ DialogShown
            => /\ dash'.dialog.selectedBtn = 0
               /\ \A p \in {AppUpdate(app', dash', views', store', KeyMsg("enter"))} :
                      /\ ~p.dash.dialog.visible
                      /\ p.cmds = << Send(DialogMsg(TRUE, dash'.dialog.message)) >>
       /\ dash'.dialog.selectedBtn \in 0..(DialogButtons - 1)]_vars
\* C36 witness: Cancel was selected and entered, the fourth key shows the dialog
\* again
C36_Witness ==
    /\ "right" \in operator.keys /\ operator.left = MaxKeys - 4
    /\ last.msg = KeyMsg("d")
    /\ dash.dialog.visible /\ dash.dialog.selectedBtn = 0

\* C37: the Search text-entry sub-mode is active only if the focused panel is
\* Search and the confirmation dialog is hidden.
C37_TextEntryOnlyInSearchPanel ==
    dash.searchFocused => (dash.focusedPanel = PanelSearch /\ ~dash.dialog.visible)

\* C37 witness: a character has just been typed into the search box
C37_Witness ==
    /\ last.msg = KeyMsg("g")
    /\ dash.searchFocused /\ dash.searchValue # <<>>
    /\ dash.focusedPanel = PanelSearch

\* C38: the operation status is InProgress only while something the program
\* started (an operation, a list refresh, or any other command) is still
\* outstanding.
C38_InProgressHasOutstanding ==
    dash.operationInProgress => inflight # EmptyBag

\* the call c was issued by the dashboard and its completion arrives in this
\* step while another view is the current one
CompletesElsewhere(c) ==
    /\ c.kind = "call" /\ c.from = "dashboard"
    /\ Completes(c)
    /\ app.currentView # ViewHome

\* C39: a completion requested by the dashboard is handled by the dashboard and
\* is never applied to another view's state when the operator has navigated to
\* a different view before it arrives.
C39_CompletionReachesRequester ==
    [][\A c \in BagToSet(inflight) :
           CompletesElsewhere(c)
               => /\ views' = views
                  /\ dash' = DashboardUpdate(dash, store', last'.msg).v]_vars

\* what C40 requires of every state of the goroutine, the channels and the
\* consumer
StreamSafe ==
    /\ stream.sent <= 1
    /\ stream.g = "sendErr" => Len(stream.errorChan) < ErrorCap
    /\ stream.outputClosed => stream.errorClosed
    /\ stream.c = "error" => (stream.errorChan # <<>> \/ stream.errorClosed)
    /\ stream.g = "done" => (stream.errorClosed /\ stream.outputClosed)

\* C40: the goroutine of executeStream sends at most one error, so its send on
\* the error channel never blocks; with a consumer that keeps receiving from
\* the output channel it terminates with both channels closed; it closes the
\* error channel before the output channel, so a consumer that has seen the
\* output channel closed receives from the error channel without blocking.
C40_StreamClosesInOrder ==
    /\ []StreamSafe
    /\ <>(stream.g = "done" /\ stream.c = "done")
\* C40 witness: the command failed after output had been received, and the
\* consumer, having seen the output channel closed, is about to receive the error
C40_Witness ==
    /\ stream.c = "error" /\ stream.got # <<>>
    /\ stream.errorChan = <<"command failed">>
    /\ stream.g = "done"

=========================================================================
